---- MODULE Spec2Model ----
(***************************************************************************)
(* Model of the command-line task tracker in src/tatra.cpp.                *)
(*                                                                         *)
(* Strings are sequences of one-character strings, so that the text the    *)
(* program writes to tasks.json and the substring searches it reads the    *)
(* file back with are computed character by character.  Positions are      *)
(* 0-based as in std::string.                                              *)
(***************************************************************************)
EXTENDS Integers, Sequences, FiniteSets, TLC

VARIABLES
    file,      \* tasks.json: whether it exists, and its text
    tasks,     \* TaskManager::tasks of the current (or last) process
    nextId,    \* TaskManager::nextId of the current (or last) process
    now,       \* the wall clock, in seconds
    out,       \* what the last command printed
    exitCode,  \* the value main returned for the last command
    writes,    \* number of times the current process wrote the file
    last,      \* the last command and its arguments
    hist,      \* the ids add returned and delete removed, in order, with the time
    ncmds      \* number of commands run so far

vars == <<file, tasks, nextId, now, out, exitCode, writes, last, hist, ncmds>>

\* Number of commands in a behaviour.
MaxCmds == 3
\* Largest value of the wall clock.
MaxTime == 2
\* Largest id given as a command-line argument.
MaxIdArg == 2

(***************************************************************************)
(* String literals of the program.                                         *)
(***************************************************************************)
\* The keys loadTasks searches for.
KeyId ==
    <<"\"", "i", "d", "\"", ":">>
KeyDescription ==
    <<"\"", "d", "e", "s", "c", "r", "i", "p", "t", "i", "o", "n", "\"", ":", " ", "\"">>
KeyStatus ==
    <<"\"", "s", "t", "a", "t", "u", "s", "\"", ":", " ", "\"">>
KeyCreatedAt ==
    <<"\"", "c", "r", "e", "a", "t", "e", "d", "A", "t", "\"", ":", " ", "\"">>
KeyUpdatedAt ==
    <<"\"", "u", "p", "d", "a", "t", "e", "d", "A", "t", "\"", ":", " ", "\"">>
\* The pieces toJson puts around the fields of a record.
JsonOpenId ==
    <<" ", " ", "{", "\n", " ", " ", " ", " ", "\"", "i", "d", "\"", ":", " ">>
JsonDescription ==
    <<",", "\n", " ", " ", " ", " ", "\"", "d", "e", "s", "c", "r", "i", "p", "t", "i", "o", "n", "\"", ":", " ", "\"">>
JsonStatus ==
    <<"\"", ",", "\n", " ", " ", " ", " ", "\"", "s", "t", "a", "t", "u", "s", "\"", ":", " ", "\"">>
JsonCreatedAt ==
    <<"\"", ",", "\n", " ", " ", " ", " ", "\"", "c", "r", "e", "a", "t", "e", "d", "A", "t", "\"", ":", " ", "\"">>
JsonUpdatedAt ==
    <<"\"", ",", "\n", " ", " ", " ", " ", "\"", "u", "p", "d", "a", "t", "e", "d", "A", "t", "\"", ":", " ", "\"">>
JsonClose ==
    <<"\"", "\n", " ", " ", "}">>
\* What saveTasks writes around and between the records, and what loadTasks
\* takes for an empty list.
ListOpen ==
    <<"[", "\n">>
ListSep ==
    <<",", "\n">>
ListClose ==
    <<"\n", "]">>
EmptyList ==
    <<"[", "]">>
\* The status values.
StatusTodo ==
    <<"t", "o", "d", "o">>
StatusInProgress ==
    <<"i", "n", "-", "p", "r", "o", "g", "r", "e", "s", "s">>
StatusDone ==
    <<"d", "o", "n", "e">>
\* Descriptions given on the command line.
DescPunct ==
    <<"a", ",", "b", ":", " ", "c", "!">>
DescQuote ==
    <<"a", "\"", "b">>
DescBrackets ==
    <<"x", "[", "]">>
DescCreatedKey ==
    <<"\"", "c", "r", "e", "a", "t", "e", "d", "A", "t", "\"", ":", " ", "\"", "0">>

Statuses == {StatusTodo, StatusInProgress, StatusDone}

\* The description arguments tried: punctuation, an embedded double quote,
\* the two characters "[]", and text that looks like a field of the file.
Descriptions == {DescPunct, DescQuote, DescBrackets, DescCreatedKey}

Digits == <<"0", "1", "2", "3", "4", "5", "6", "7", "8", "9">>

Whitespace == {" ", "\n", "\t", "\r", "\f"}

\* std::string::npos is 2^64 - 1; size_t arithmetic wraps, so npos + k is
\* k - 1.  Written as -1, sums come out right, and every negative length or
\* start position stands for a value larger than any string.
NPOS == 0 - 1

RECURSIVE Concat(_)
Concat(ss) == IF ss = << >> THEN << >> ELSE Head(ss) \o Concat(Tail(ss))

RECURSIVE to_string(_)
to_string(n) ==
    IF n < 0 THEN <<"-">> \o to_string(0 - n)
    ELSE IF n < 10 THEN <<Digits[n + 1]>>
    ELSE to_string(n \div 10) \o <<Digits[(n % 10) + 1]>>

\* content.find(pat, pos): the least position >= pos where pat occurs.
\* The search goes window by window, 16 positions at a time.
FirstOf(hits, otherwise) ==
    IF hits = {} THEN otherwise
    ELSE CHOOSE i \in hits : \A j \in hits : i <= j

RECURSIVE Find(_, _, _)
Find(content, pat, pos) ==
    IF pos < 0 \/ pos + Len(pat) > Len(content) THEN NPOS
    ELSE FirstOf({i \in pos..(pos + 15) :
                     /\ i + Len(pat) <= Len(content)
                     /\ content[i + 1] = pat[1]
                     /\ SubSeq(content, i + 1, i + Len(pat)) = pat},
                 Find(content, pat, pos + 16))

\* content.substr(pos, n): throws std::out_of_range when pos > size.
SubstrThrows(content, pos) == pos < 0 \/ pos > Len(content)

Substr(content, pos, n) ==
    IF n < 0 \/ pos + n > Len(content)
    THEN SubSeq(content, pos + 1, Len(content))
    ELSE SubSeq(content, pos + 1, pos + n)

IsDigit(c) == \E d \in 1..10 : Digits[d] = c

DigitVal(c) == (CHOOSE d \in 1..10 : Digits[d] = c) - 1

RECURSIVE SkipSpace(_, _)
SkipSpace(s, i) ==
    IF i <= Len(s) /\ s[i] \in Whitespace THEN SkipSpace(s, i + 1) ELSE i

RECURSIVE ReadDigits(_, _, _)
ReadDigits(s, i, acc) ==
    IF i <= Len(s) /\ IsDigit(s[i])
    THEN ReadDigits(s, i + 1, 10 * acc + DigitVal(s[i]))
    ELSE acc

\* std::stoi: leading whitespace, an optional sign, then decimal digits up
\* to the first other character; std::invalid_argument without a digit.
stoi(s) ==
    LET i == SkipSpace(s, 1)
        signed == i <= Len(s) /\ s[i] \in {"+", "-"}
        j == IF signed THEN i + 1 ELSE i
        ok == j <= Len(s) /\ IsDigit(s[j])
        mag == ReadDigits(s, j, 0)
    IN  [ok |-> ok,
         value |-> IF signed /\ s[i] = "-" THEN 0 - mag ELSE mag]

(***************************************************************************)
(* TaskTracker                                                             *)
(***************************************************************************)
TaskTracker(i, d, s, c, u) ==
    [id |-> i, desc |-> d, status |-> s, createdAt |-> c, updatedAt |-> u,
     isDeleted |-> FALSE]

updateDescription(task, d, u) == [task EXCEPT !.desc = d, !.updatedAt = u]

updateStatus(task, s, u) == [task EXCEPT !.status = s, !.updatedAt = u]

deleteTaskFlag(task) == [task EXCEPT !.isDeleted = TRUE]

toJson(task) ==
    IF task.isDeleted THEN << >>
    ELSE Concat(<<JsonOpenId, to_string(task.id), JsonDescription, task.desc,
                  JsonStatus, task.status, JsonCreatedAt, task.createdAt,
                  JsonUpdatedAt, task.updatedAt, JsonClose>>)

(***************************************************************************)
(* TaskManager: the file                                                   *)
(***************************************************************************)
\* getCurrentTime: the text of the clock value t.
getCurrentTime(t) == <<"0", "0", ":", "0">> \o to_string(t)

\* saveTasks without its test of isTaskDeleted: a deleted record gets its
\* separator and the empty text toJson gives it.
RECURSIVE SaveFromAll(_, _, _)
SaveFromAll(ts, i, first) ==
    IF i > Len(ts) THEN << >>
    ELSE (IF first THEN << >> ELSE ListSep) \o toJson(ts[i])
         \o SaveFromAll(ts, i + 1, FALSE)

\* The text saveTasks writes: "[\n", the live records separated by ",\n",
\* "\n]".
RECURSIVE SaveFrom(_, _, _)
SaveFrom(ts, i, first) ==
    IF i > Len(ts) THEN << >>
    ELSE IF ts[i].isDeleted THEN SaveFrom(ts, i + 1, first)
    ELSE (IF first THEN << >> ELSE ListSep) \o toJson(ts[i])
         \o SaveFrom(ts, i + 1, FALSE)

SaveContent(ts) == ListOpen \o SaveFrom(ts, 1, TRUE) \o ListClose

\* A quoted field of loadTasks: start is find(key, pos) + the key's length,
\* end is find("\"", start), and the text is substr(start, end - start).
QuotedAt(content, start, end) ==
    [throws |-> SubstrThrows(content, start), end |-> end,
     text |-> Substr(content, start, end - start)]

QuotedFrom(content, start) ==
    QuotedAt(content, start, Find(content, <<"\"">>, start))

Quoted(content, key, pos) ==
    QuotedFrom(content, Find(content, key, pos) + Len(key))

\* The id of loadTasks: idStart is find(":", pos) + 1, idEnd is
\* find(",", idStart), and the id is stoi(substr(idStart, idEnd - idStart)).
IdFrom(content, idStart) ==
    [throws |-> SubstrThrows(content, idStart),
     num |-> stoi(Substr(content, idStart,
                         Find(content, <<",">>, idStart) - idStart))]

IdAt(content, pos) == IdFrom(content, Find(content, <<":">>, pos) + 1)

\* The while loop of loadTasks from position pos0 on.  The result is the
\* records pushed and nextId, or crashed when stoi or substr throws (the
\* exception leaves the constructor and main, and the process aborts) or
\* when the scan position does not advance (the loop never ends).
RECURSIVE ParseFrom(_, _, _, _)
ParseRecord(content, pos, ts, nid, id, desc, status, createdAt, updatedAt) ==
    IF id.throws \/ ~id.num.ok \/ desc.throws \/ status.throws
       \/ createdAt.throws \/ updatedAt.throws
    THEN [tasks |-> ts, nextId |-> nid, crashed |-> TRUE]
    ELSE IF updatedAt.end # NPOS /\ updatedAt.end <= pos
    THEN [tasks |-> ts, nextId |-> nid, crashed |-> TRUE]
    ELSE ParseFrom(content, updatedAt.end,
                   Append(ts, TaskTracker(id.num.value, desc.text, status.text,
                                          createdAt.text, updatedAt.text)),
                   IF nid > id.num.value + 1 THEN nid ELSE id.num.value + 1)

ParseAt(content, pos, ts, nid) ==
    IF pos = NPOS
    THEN [tasks |-> ts, nextId |-> nid, crashed |-> FALSE]
    ELSE ParseRecord(content, pos, ts, nid,
                     IdAt(content, pos),
                     Quoted(content, KeyDescription, pos),
                     Quoted(content, KeyStatus, pos),
                     Quoted(content, KeyCreatedAt, pos),
                     Quoted(content, KeyUpdatedAt, pos))

ParseFrom(content, pos0, ts, nid) ==
    ParseAt(content, Find(content, KeyId, pos0), ts, nid)

\* loadTasks on a manager just constructed (tasks empty, nextId 1).  getline
\* strips each line's "\n" and the loop puts one back, so content is the
\* file's text with a final "\n" when its last line has none.
LoadContent(content) ==
    IF content = << >> \/ Find(content, EmptyList, 0) # NPOS
    THEN [tasks |-> << >>, nextId |-> 1, crashed |-> FALSE]
    ELSE ParseFrom(content, 0, << >>, 1)

loadTasks(f) ==
    IF ~f.exists THEN [tasks |-> << >>, nextId |-> 1, crashed |-> FALSE]
    ELSE LoadContent(IF f.content = << >> \/ f.content[Len(f.content)] = "\n"
                     THEN f.content ELSE f.content \o <<"\n">>)

NoFile == [exists |-> FALSE, content |-> << >>]

(***************************************************************************)
(* TaskManager: the operations.  A manager is the record m of its fields   *)
(* and of what it has done to the outside: the file, the text printed and  *)
(* the number of writes.                                                   *)
(***************************************************************************)
Say(msg, id) == [msg |-> msg, id |-> id, rows |-> << >>]

Silent == Say("", 0)

NotFound(id) == Say("Task with ID not found", id)

\* What display prints of a task.
Row(task) ==
    [id |-> task.id, desc |-> task.desc, status |-> task.status,
     createdAt |-> task.createdAt, updatedAt |-> task.updatedAt]

display(task) == IF task.isDeleted THEN << >> ELSE <<Row(task)>>

saveTasks(m) ==
    [m EXCEPT !.file = [exists |-> TRUE, content |-> SaveContent(m.tasks)],
              !.writes = @ + 1]

\* The constructor: loadTasks from the file as it is.
Loaded(loaded, f) ==
    [tasks |-> loaded.tasks, nextId |-> loaded.nextId, file |-> f,
     out |-> Silent, writes |-> 0, crashed |-> loaded.crashed]

TaskManager(f) == Loaded(loadTasks(f), f)

\* The lookup without its test of isTaskDeleted.
FindAny(ts, id) ==
    LET hits == {i \in 1..Len(ts) : ts[i].id = id}
    IN  IF hits = {} THEN 0 ELSE CHOOSE i \in hits : \A j \in hits : i <= j

\* The index of the first live task with this id, 0 when there is none:
\* the loop and test shared by updateTask, deleteTask, markInProgress and
\* markDone.
FindLive(ts, id) ==
    LET hits == {i \in 1..Len(ts) : ts[i].id = id /\ ~ts[i].isDeleted}
    IN  IF hits = {} THEN 0 ELSE CHOOSE i \in hits : \A j \in hits : i <= j

addTask(m, description, t) ==
    LET currentTime == getCurrentTime(t)
        newTask == TaskTracker(m.nextId, description, StatusTodo,
                               currentTime, currentTime)
        m1 == [m EXCEPT !.nextId = @ + 1, !.tasks = Append(@, newTask)]
    IN  [saveTasks(m1) EXCEPT !.out = Say("Task added successfully", newTask.id)]

updateTask(m, id, description, t) ==
    LET i == FindLive(m.tasks, id)
        m1 == [m EXCEPT !.tasks[i] =
                  updateDescription(@, description, getCurrentTime(t))]
    IN  IF i = 0 THEN [m EXCEPT !.out = NotFound(id)]
        ELSE [saveTasks(m1) EXCEPT !.out = Say("Task updated successfully", 0)]

\* deleteTask with the loop variable a copy (auto task, not auto& task): the
\* flag is set on the copy and the record stays live.
deleteTaskOnCopy(m, id) ==
    LET i == FindLive(m.tasks, id)
    IN  IF i = 0 THEN [m EXCEPT !.out = NotFound(id)]
        ELSE [saveTasks(m) EXCEPT !.out = Say("Task deleted successfully", 0)]

deleteTask(m, id) ==
    LET i == FindLive(m.tasks, id)
        m1 == [m EXCEPT !.tasks[i] = deleteTaskFlag(@)]
    IN  IF i = 0 THEN [m EXCEPT !.out = NotFound(id)]
        ELSE [saveTasks(m1) EXCEPT !.out = Say("Task deleted successfully", 0)]

markInProgress(m, id, t) ==
    LET i == FindLive(m.tasks, id)
        m1 == [m EXCEPT !.tasks[i] =
                  updateStatus(@, StatusInProgress, getCurrentTime(t))]
    IN  IF i = 0 THEN [m EXCEPT !.out = NotFound(id)]
        ELSE [saveTasks(m1) EXCEPT !.out = Say("Task marked as in progress", 0)]

markDone(m, id, t) ==
    LET i == FindLive(m.tasks, id)
        m1 == [m EXCEPT !.tasks[i] =
                  updateStatus(@, StatusDone, getCurrentTime(t))]
    IN  IF i = 0 THEN [m EXCEPT !.out = NotFound(id)]
        ELSE [saveTasks(m1) EXCEPT !.out = Say("Task marked as done", 0)]

RECURSIVE DisplayAll(_, _)
DisplayAll(ts, i) ==
    IF i > Len(ts) THEN << >>
    ELSE (IF ~ts[i].isDeleted THEN display(ts[i]) ELSE << >>)
         \o DisplayAll(ts, i + 1)

listAllTasks(m) ==
    LET rows == DisplayAll(m.tasks, 1)
    IN  [m EXCEPT !.out = [msg |-> IF rows = << >> THEN "No tasks found" ELSE "",
                           id |-> 0, rows |-> rows]]

RECURSIVE DisplayByStatus(_, _, _)
DisplayByStatus(ts, status, i) ==
    IF i > Len(ts) THEN << >>
    ELSE (IF ~ts[i].isDeleted /\ ts[i].status = status
          THEN display(ts[i]) ELSE << >>)
         \o DisplayByStatus(ts, status, i + 1)

\* listTasksByStatus without its comparison of the status.
listTasksByStatusAny(m, status) ==
    LET rows == DisplayAll(m.tasks, 1)
    IN  [m EXCEPT !.out = [msg |-> IF rows = << >>
                                   THEN "No tasks found with status" ELSE "",
                           id |-> 0, rows |-> rows]]

listTasksByStatus(m, status) ==
    LET rows == DisplayByStatus(m.tasks, status, 1)
    IN  [m EXCEPT !.out = [msg |-> IF rows = << >>
                                   THEN "No tasks found with status" ELSE "",
                           id |-> 0, rows |-> rows]]

(***************************************************************************)
(* main, after its first line has constructed the manager.  argv is <<command, argument, ...>> without the program name, so  *)
(* argc is Len(argv) + 1.  The command is compared as a whole and is a     *)
(* string; the other arguments are character sequences.                    *)
(***************************************************************************)
\* The status of a process ended by std::terminate (SIGABRT).
Aborted == 134

Exit(m, code) == [m |-> m, exitCode |-> code]

main(manager, argv, t) ==
    LET argc == Len(argv) + 1
        command == argv[1]
        id == stoi(argv[2])
        usage == [manager EXCEPT !.out = Say("Usage", 0)]
        missing == [manager EXCEPT !.out = Say("Error: Please provide", 0)]
    IN  IF manager.crashed THEN Exit(manager, Aborted)
        ELSE IF argc < 2 THEN Exit(usage, 1)
        ELSE IF command = "add" THEN
            IF argc < 3 THEN Exit(missing, 1)
            ELSE Exit(addTask(manager, argv[2], t), 0)
        ELSE IF command = "update" THEN
            IF argc < 4 THEN Exit(missing, 1)
            ELSE IF ~id.ok THEN Exit(manager, Aborted)
            ELSE Exit(updateTask(manager, id.value, argv[3], t), 0)
        ELSE IF command = "delete" THEN
            IF argc < 3 THEN Exit(missing, 1)
            ELSE IF ~id.ok THEN Exit(manager, Aborted)
            ELSE Exit(deleteTask(manager, id.value), 0)
        ELSE IF command = "mark-in-progress" THEN
            IF argc < 3 THEN Exit(missing, 1)
            ELSE IF ~id.ok THEN Exit(manager, Aborted)
            ELSE Exit(markInProgress(manager, id.value, t), 0)
        ELSE IF command = "mark-done" THEN
            IF argc < 3 THEN Exit(missing, 1)
            ELSE IF ~id.ok THEN Exit(manager, Aborted)
            ELSE Exit(markDone(manager, id.value, t), 0)
        ELSE IF command = "list" THEN
            IF argc = 2 THEN Exit(listAllTasks(manager), 0)
            ELSE IF argc = 3 THEN
                IF argv[2] = StatusInProgress
                THEN Exit(listTasksByStatus(manager, StatusInProgress), 0)
                ELSE Exit(listTasksByStatus(manager, argv[2]), 0)
            ELSE Exit(manager, 0)
        ELSE Exit(usage, 1)

(***************************************************************************)
(* The inputs.                                                             *)
(***************************************************************************)
IdArgs == {to_string(i) : i \in 1..MaxIdArg}

\* A status no record has.
StatusOther == <<"x">>

StatusArgs == Statuses \cup {StatusOther}

Times == {t \in {now, now + 1} : t <= MaxTime}

\* The id add returned or delete removed, with the time of the command,
\* appended to the history.
Events(argv, m, t) ==
    IF m.out.msg = "Task added successfully"
    THEN <<[cmd |-> "add", id |-> m.out.id, t |-> t]>>
    ELSE IF m.out.msg = "Task deleted successfully"
    THEN <<[cmd |-> "delete", id |-> stoi(argv[2]).value, t |-> t]>>
    ELSE << >>

(***************************************************************************)
(* The program: every step is one run of main in a new process, on the     *)
(* file the earlier runs left.                                             *)
(***************************************************************************)
Init ==
    /\ file = NoFile
    /\ tasks = << >>
    /\ nextId = 1
    /\ now = 0
    /\ out = Silent
    /\ exitCode = 0
    /\ writes = 0
    /\ last = << >>
    /\ hist = << >>
    /\ ncmds = 0

\* One run of main on the manager its first line constructs.
Run(manager, argv) ==
    /\ \E t \in Times :
          \E r \in {main(manager, argv, t)} :
              /\ file' = r.m.file
              /\ tasks' = r.m.tasks
              /\ nextId' = r.m.nextId
              /\ out' = r.m.out
              /\ writes' = r.m.writes
              /\ exitCode' = r.exitCode
              /\ hist' = hist \o Events(argv, r.m, t)
              /\ now' = t
    /\ last' = argv
    /\ ncmds' = ncmds + 1

RunAdd ==
    /\ ncmds < MaxCmds
    /\ \E manager \in {TaskManager(file)} :
        \E d \in Descriptions : Run(manager, <<"add", d>>)

RunUpdate ==
    /\ ncmds < MaxCmds
    /\ \E manager \in {TaskManager(file)} :
        \E i \in IdArgs, d \in Descriptions : Run(manager, <<"update", i, d>>)

RunDelete ==
    /\ ncmds < MaxCmds
    /\ \E manager \in {TaskManager(file)} :
        \E i \in IdArgs : Run(manager, <<"delete", i>>)

RunMarkInProgress ==
    /\ ncmds < MaxCmds
    /\ \E manager \in {TaskManager(file)} :
        \E i \in IdArgs : Run(manager, <<"mark-in-progress", i>>)

RunMarkDone ==
    /\ ncmds < MaxCmds
    /\ \E manager \in {TaskManager(file)} :
        \E i \in IdArgs : Run(manager, <<"mark-done", i>>)

RunList ==
    /\ ncmds < MaxCmds
    /\ \E manager \in {TaskManager(file)} :
        \/ Run(manager, <<"list">>)
        \/ \E s \in StatusArgs : Run(manager, <<"list", s>>)

\* A command without the argument it needs, an id that is no number, no
\* command, an unknown one.
BadArgvs ==
    {<<"add">>, <<"update">>, <<"update", to_string(1)>>, <<"delete">>,
     <<"mark-in-progress">>, <<"mark-done">>, <<"delete", <<"x">>>>,
     << >>, <<"remove", to_string(1)>>}

RunBadArgs ==
    /\ ncmds < MaxCmds
    /\ \E manager \in {TaskManager(file)} :
        \E argv \in BadArgvs : Run(manager, argv)

Next ==
    \/ RunAdd
    \/ RunUpdate
    \/ RunDelete
    \/ RunMarkInProgress
    \/ RunMarkDone
    \/ RunList
    \/ RunBadArgs

Spec == Init /\ [][Next]_vars

(***************************************************************************)
(* One TaskManager object serving several calls, as the class allows: a    *)
(* step constructs a manager from the file, or calls one method of the     *)
(* manager constructed last.  Every run of main is Construct followed by   *)
(* one call.                                                               *)
(***************************************************************************)
Manager ==
    [tasks |-> tasks, nextId |-> nextId, file |-> file, out |-> out,
     writes |-> writes, crashed |-> FALSE]

Construct ==
    /\ ncmds < MaxCmds
    /\ \E manager \in {TaskManager(file)} :
          /\ tasks' = manager.tasks
          /\ nextId' = manager.nextId
          /\ out' = manager.out
          /\ writes' = manager.writes
          /\ exitCode' = IF manager.crashed THEN Aborted ELSE 0
    /\ last' = <<"construct">>
    /\ UNCHANGED <<file, now, hist, ncmds>>

Call(m, argv, t) ==
    /\ file' = m.file
    /\ tasks' = m.tasks
    /\ nextId' = m.nextId
    /\ out' = m.out
    /\ writes' = m.writes
    /\ hist' = hist \o Events(argv, m, t)
    /\ now' = t
    /\ last' = argv
    /\ ncmds' = ncmds + 1
    /\ UNCHANGED exitCode

Callable == ncmds < MaxCmds /\ exitCode # Aborted

CallAdd ==
    /\ Callable
    /\ \E d \in Descriptions, t \in Times :
          Call(addTask(Manager, d, t), <<"add", d>>, t)

CallUpdate ==
    /\ Callable
    /\ \E i \in 1..MaxIdArg, d \in Descriptions, t \in Times :
          Call(updateTask(Manager, i, d, t), <<"update", to_string(i), d>>, t)

CallDelete ==
    /\ Callable
    /\ \E i \in 1..MaxIdArg, t \in Times :
          Call(deleteTask(Manager, i), <<"delete", to_string(i)>>, t)

CallMarkInProgress ==
    /\ Callable
    /\ \E i \in 1..MaxIdArg, t \in Times :
          Call(markInProgress(Manager, i, t),
               <<"mark-in-progress", to_string(i)>>, t)

CallMarkDone ==
    /\ Callable
    /\ \E i \in 1..MaxIdArg, t \in Times :
          Call(markDone(Manager, i, t), <<"mark-done", to_string(i)>>, t)

CallList ==
    /\ Callable
    /\ \E t \in Times :
          \/ Call(listAllTasks(Manager), <<"list">>, t)
          \/ \E s \in StatusArgs :
                Call(listTasksByStatus(Manager, s), <<"list", s>>, t)

NextManager ==
    \/ Construct
    \/ CallAdd
    \/ CallUpdate
    \/ CallDelete
    \/ CallMarkInProgress
    \/ CallMarkDone
    \/ CallList

SpecManager == Init /\ [][NextManager]_vars



(***************************************************************************)
(* The properties.                                                         *)
(***************************************************************************)
Live(ts) == SelectSeq(ts, LAMBDA task : ~task.isDeleted)

HasLive(ts, id) == \E i \in 1..Len(ts) : ts[i].id = id /\ ~ts[i].isDeleted

Succeeded ==
    out.msg \in {"Task updated successfully", "Task deleted successfully",
                 "Task marked as in progress", "Task marked as done"}

Added == out.msg = "Task added successfully"

\* The last command is update, delete, mark-in-progress or mark-done.
LastIsById ==
    /\ last # << >>
    /\ last[1] \in {"update", "delete", "mark-in-progress", "mark-done"}

\* ... and it has all its arguments.
LastHasId == LastIsById /\ Len(last) = (IF last[1] = "update" THEN 3 ELSE 2)

LastId == stoi(last[2]).value

\* The file a new process would find after saveTasks on these tasks, and
\* what its loadTasks makes of it.
Reloaded(ts) == loadTasks([exists |-> TRUE, content |-> SaveContent(ts)])

\* C1: when every command so far was an add, from an absent file and each
\* in its own process, the ids returned are strictly increasing and the
\* first is 1.
C1_AddIdsIncreaseFromOne ==
    (Len(hist) = ncmds /\ \A i \in 1..Len(hist) : hist[i].cmd = "add")
    => /\ hist # << >> => hist[1].id = 1
       /\ \A i, j \in 1..Len(hist) : i < j => hist[i].id < hist[j].id

\* C2: no add returns the id of a record that an earlier delete removed.
C2_DeletedIdNotReassigned ==
    \A i, j \in 1..Len(hist) :
        (i < j /\ hist[i].cmd = "delete" /\ hist[j].cmd = "add")
        => hist[j].id # hist[i].id

\* C3: saving the records and loading them in a new process gives back
\* exactly the live records, in order, whatever the descriptions hold.
C3_RoundTrip ==
    /\ ~Reloaded(tasks).crashed
    /\ Reloaded(tasks).tasks = Live(tasks)

NoQuote(desc) == \A i \in 1..Len(desc) : desc[i] # "\""

\* C10: when no live description holds a double quote, loading the saved
\* file restores as many records as were live.
C10_NoQuoteRestoresAll ==
    (\A i \in 1..Len(tasks) : ~tasks[i].isDeleted => NoQuote(tasks[i].desc))
    => Len(Reloaded(tasks).tasks) = Len(Live(tasks))

\* C6: update, delete, mark-in-progress and mark-done exit with 1 when the
\* id is missing or has no live record, and with 0 only when applied.
C6_ExitCodeTellsFailure ==
    LastIsById =>
        /\ (~LastHasId \/ out = NotFound(LastId)) => exitCode = 1
        /\ exitCode = 0 => Succeeded

\* The time of the add that created the record now holding this id.
AddTimes(id) ==
    {hist[i].t : i \in {k \in 1..Len(hist) :
        /\ hist[k].cmd = "add" /\ hist[k].id = id
        /\ \A j \in (k + 1)..Len(hist) :
              ~(hist[j].cmd = "add" /\ hist[j].id = id)}}

\* C7: an applied update, mark-in-progress or mark-done at time t leaves
\* the record's updatedAt at t; add leaves createdAt = updatedAt = t and
\* status todo; and createdAt stays what add set, through every later
\* command and reload.
C7_TimestampsKept ==
    /\ (LastHasId /\ last[1] # "delete" /\ Succeeded) =>
          \A i \in 1..Len(tasks) :
              (tasks[i].id = LastId /\ ~tasks[i].isDeleted)
              => tasks[i].updatedAt = getCurrentTime(now)
    /\ Added =>
          /\ tasks[Len(tasks)].createdAt = getCurrentTime(now)
          /\ tasks[Len(tasks)].updatedAt = getCurrentTime(now)
          /\ tasks[Len(tasks)].status = StatusTodo
    /\ \A i \in 1..Len(tasks) :
          \A t \in AddTimes(tasks[i].id) :
              tasks[i].createdAt = getCurrentTime(t)

\* The ids deleted and not given to a new record since.
Retired ==
    {hist[k].id : k \in {i \in 1..Len(hist) :
        /\ hist[i].cmd = "delete"
        /\ \A j \in (i + 1)..Len(hist) :
              ~(hist[j].cmd = "add" /\ hist[j].id = hist[i].id)}}

\* The text that starts the record of this id in the file.
RecordStart(id) == JsonOpenId \o to_string(id) \o <<",">>

\* C4: a deleted record is in no list output and in no file written, in
\* the same run and after a reload, until an add gives its id away.
C4_DeletedNeverShown ==
    \A id \in Retired :
        /\ ~HasLive(tasks, id)
        /\ \A i \in 1..Len(out.rows) : out.rows[i].id # id
        /\ Find(file.content, RecordStart(id), 0) = NPOS

C4_Witness ==
    /\ Retired # {}
    /\ last = <<"list">>
    /\ out.msg = "No tasks found"
    /\ \E i \in 1..Len(tasks) : tasks[i].isDeleted

\* C5: update, delete, mark-in-progress and mark-done on an id without a
\* live record print "not found" and change neither the records, nor
\* nextId, nor the file.
C5_NotFoundChangesNothing ==
    [][(/\ last' # << >>
        /\ last'[1] \in {"update", "delete", "mark-in-progress", "mark-done"}
        /\ Len(last') = (IF last'[1] = "update" THEN 3 ELSE 2)
        /\ ~HasLive(tasks, stoi(last'[2]).value))
       => /\ out' = NotFound(stoi(last'[2]).value)
          /\ tasks' = tasks
          /\ nextId' = nextId
          /\ file' = file
          /\ writes' = writes]_vars

C5_Witness ==
    /\ last = <<"delete", to_string(1)>>
    /\ out = NotFound(1)
    /\ \E i \in 1..Len(tasks) : tasks[i].id = 1 /\ tasks[i].isDeleted

RECURSIVE Joined(_)
Joined(records) ==
    IF records = << >> THEN << >>
    ELSE IF Len(records) = 1 THEN toJson(records[1])
    ELSE toJson(records[1]) \o ListSep \o Joined(Tail(records))

\* C8: after an applied add, update, delete, mark-in-progress or mark-done
\* the file is the list of the live records in order and was written once;
\* a list command writes nothing; no run writes twice.
C8_FileHoldsLiveRecords ==
    /\ writes <= 1
    /\ (Added \/ Succeeded) =>
          /\ writes = 1
          /\ file.exists
          /\ file.content = ListOpen \o Joined(Live(tasks)) \o ListClose
    /\ (last # << >> /\ last[1] = "list") => writes = 0

C8_Witness ==
    /\ out.msg = "Task deleted successfully"
    /\ Live(tasks) # << >>
    /\ Len(Live(tasks)) < Len(tasks)
    /\ writes = 1

\* The rows a list command with these arguments is to print.
Listed(argv) ==
    LET shown == SelectSeq(tasks, LAMBDA task :
                     /\ ~task.isDeleted
                     /\ Len(argv) = 2 => task.status = argv[2])
    IN  [i \in 1..Len(shown) |-> Row(shown[i])]

=============================================================================
